---- MODULE Spec2Model ----
(***************************************************************************)
(* A model of the omnissiah-engine repository.                             *)
(*                                                                         *)
(* Part I models src/cryptographic_seal.py: the CryptographicSeal wrapper  *)
(* around Ed25519 signing and the HierarchicalSeal built on it.            *)
(*                                                                         *)
(* Python values are represented as follows:                               *)
(*   bytes   a sequence of integers 0..255                                 *)
(*   str     a sequence of code points                                     *)
(*   None    the empty tuple <<>>; a present optional value v is <<v>>     *)
(*   a PEM   a record [armor, body]: the label of the BEGIN/END lines and  *)
(*           the DER content between them (both empty for the string "")   *)
(* The signature primitive of the `cryptography` package is modelled as an *)
(* ideal deterministic signature scheme: a signature is accepted under a   *)
(* public key exactly when it is the byte string the matching private key  *)
(* produces for the message.                                               *)
(***************************************************************************)
EXTENDS Integers, Sequences, FiniteSets, TLC

VARIABLES
    seals,  \* the seal objects constructed so far: slot -> None or <<object>>
    given,  \* history: what the caller passed to each seal's constructor
    last,   \* the call whose outcome the caller is looking at (Idle if none)
    shared, \* Part II: the CryptographicSeal instance the threads share
    pc,     \* Part II: thread -> the line of the method it is about to run
    frame,  \* Part II: slot -> the local variables of a running call
    results, \* Part III: ResonanceTest.results (its 'tests' and 'status')
    passed,  \* Part III: ResonanceTest.passed
    failed,  \* Part III: ResonanceTest.failed
    called,  \* Part III: the test methods called so far, and the last return
    evaluated, \* Part IV: the function of core.py called last, with its outcome
    engine,   \* Part V: the AlphabetEngine: state_A and current_state
    cycle,    \* Part V: the method of the engine called last, input and result
    arch,     \* Part VI: the TriNodeArchitecture and its three nodes
    invoked   \* Part VI: the method called last, what it returned, and the
              \* number of calls made so far

sealVars == <<seals, given, last>>
threadVars == <<shared, pc, frame>>
testVars == <<results, passed, failed, called>>
coreVars == <<evaluated>>
engineVars == <<engine, cycle>>
triVars == <<arch, invoked>>
vars == <<sealVars, threadVars, testVars, coreVars, engineVars, triVars>>

\* Each part of the model is explored by a specification of its own, during
\* which the variables of the other parts stay parked at <<>>.
SealsParked == seals = <<>> /\ given = <<>> /\ last = <<>>
ThreadsParked == shared = <<>> /\ pc = <<>> /\ frame = <<>>
TestsParked == results = <<>> /\ passed = 0 /\ failed = 0 /\ called = <<>>
CoreParked == evaluated = <<>>
EngineParked == engine = <<>> /\ cycle = <<>>
TriParked == arch = <<>> /\ invoked = <<>>
otherThanSeals == <<threadVars, testVars, coreVars, engineVars, triVars>>
otherThanThreads == <<sealVars, testVars, coreVars, engineVars, triVars>>
otherThanTests == <<sealVars, threadVars, coreVars, engineVars, triVars>>
otherThanCore == <<sealVars, threadVars, testVars, engineVars, triVars>>
otherThanEngine == <<sealVars, threadVars, testVars, coreVars, triVars>>
otherThanTri == <<sealVars, threadVars, testVars, coreVars, engineVars>>

---------------------------------------------------------------------------
(* Bounds of the model *)

\* Number of distinct Ed25519 private keys the random generator can produce.
MaxKeys == 2

---------------------------------------------------------------------------
(* Python values *)

None == <<>>
Some(v) == <<v>>
IsNone(o) == o = <<>>

\* Outcome of a call: a returned value or a raised exception.
Return(v) == [exc |-> "", detail |-> "", ret |-> <<v>>]
Raise(e, d) == [exc |-> e, detail |-> d, ret |-> <<>>]
Raised(o) == o.exc # ""
Returned(o, v) == o.exc = "" /\ o.ret = <<v>>

\* b"CHICKA_CHICKA_ORANGE"
COVENANT_MESSAGE ==
    <<67, 72, 73, 67, 75, 65, 95, 67, 72, 73, 67, 75, 65, 95, 79, 82, 65, 78, 71, 69>>

\* "ALTERED_MESSAGE"
ALTERED_MESSAGE ==
    <<65, 76, 84, 69, 82, 69, 68, 95, 77, 69, 83, 83, 65, 71, 69>>

IsAscii(s) == \A i \in 1..Len(s) : s[i] < 128

\* str.encode(): UTF-8, for code points below 2048. ASCII text is its own
\* encoding.
RECURSIVE encode(_)
encode(s) ==
    IF IsAscii(s) THEN s
    ELSE IF Len(s) = 1 THEN
        IF s[1] < 128 THEN s ELSE <<192 + (s[1] \div 64), 128 + (s[1] % 64)>>
    ELSE LET mid == Len(s) \div 2 IN
         encode(SubSeq(s, 1, mid)) \o encode(SubSeq(s, mid + 1, Len(s)))

\* bytes.decode(): UTF-8, for the one- and two-byte forms. The bytes are
\* split between two characters, never inside one.
IsContinuation(byte) == byte >= 128 /\ byte < 192

RECURSIVE decode(_)
decode(b) ==
    IF IsAscii(b) THEN b
    ELSE IF Len(b) = 2 /\ IsContinuation(b[2]) THEN <<(b[1] - 192) * 64 + (b[2] - 128)>>
    ELSE LET half == Len(b) \div 2
             mid == IF IsContinuation(b[half + 1]) THEN half + 1 ELSE half
         IN  decode(SubSeq(b, 1, mid)) \o decode(SubSeq(b, mid + 1, Len(b)))

---------------------------------------------------------------------------
(* base64 *)

B64_PAD == 61

\* The base64 alphabet: the character of a 6-bit value.
B64Char(v) ==
    IF v < 26 THEN 65 + v
    ELSE IF v < 52 THEN 97 + (v - 26)
    ELSE IF v < 62 THEN 48 + (v - 52)
    ELSE IF v = 62 THEN 43 ELSE 47

\* The 6-bit value of a character, 64 for a character outside the alphabet.
B64Index(c) ==
    IF c >= 65 /\ c <= 90 THEN c - 65
    ELSE IF c >= 97 /\ c <= 122 THEN c - 97 + 26
    ELSE IF c >= 48 /\ c <= 57 THEN c - 48 + 52
    ELSE IF c = 43 THEN 62
    ELSE IF c = 47 THEN 63 ELSE 64

\* base64.b64encode(bytes): each group of three bytes gives four
\* characters; a last group of one or two bytes is padded with "=".
RECURSIVE B64Encode(_)
B64Encode(b) ==
    IF Len(b) = 0 THEN <<>>
    ELSE IF Len(b) = 1 THEN
        <<B64Char(b[1] \div 4), B64Char((b[1] % 4) * 16), B64_PAD, B64_PAD>>
    ELSE IF Len(b) = 2 THEN
        <<B64Char(b[1] \div 4), B64Char((b[1] % 4) * 16 + (b[2] \div 16)),
          B64Char((b[2] % 16) * 4), B64_PAD>>
    ELSE IF Len(b) = 3 THEN
        <<B64Char(b[1] \div 4), B64Char((b[1] % 4) * 16 + (b[2] \div 16)),
          B64Char((b[2] % 16) * 4 + (b[3] \div 64)), B64Char(b[3] % 64)>>
    ELSE LET groups == Len(b) \div 6
             mid == IF groups = 0 THEN 3 ELSE 3 * groups
         IN  B64Encode(SubSeq(b, 1, mid)) \o B64Encode(SubSeq(b, mid + 1, Len(b)))

\* binascii.a2b_base64 in its default (non-strict) mode, one character:
\* a character outside the alphabet is skipped, a complete padding ends the
\* decoding, a character of the alphabet adds its six bits.
A2BStart == [quad_pos |-> 0, leftchar |-> 0, pads |-> 0, done |-> FALSE, out |-> <<>>]

A2BStep(st, ch) ==
    IF st.done THEN st
    ELSE IF ch = B64_PAD THEN
        IF st.quad_pos >= 2 /\ st.quad_pos + st.pads + 1 >= 4
        THEN [st EXCEPT !.done = TRUE]
        ELSE [st EXCEPT !.pads = IF st.quad_pos >= 2 THEN @ + 1 ELSE @]
    ELSE IF B64Index(ch) >= 64 THEN st
    ELSE LET v == B64Index(ch) IN
        CASE st.quad_pos = 0 ->
                [st EXCEPT !.pads = 0, !.quad_pos = 1, !.leftchar = v]
          [] st.quad_pos = 1 ->
                [st EXCEPT !.pads = 0, !.quad_pos = 2, !.leftchar = v % 16,
                           !.out = Append(@, st.leftchar * 4 + (v \div 16))]
          [] st.quad_pos = 2 ->
                [st EXCEPT !.pads = 0, !.quad_pos = 3, !.leftchar = v % 4,
                           !.out = Append(@, st.leftchar * 16 + (v \div 4))]
          [] OTHER ->
                [st EXCEPT !.pads = 0, !.quad_pos = 0, !.leftchar = 0,
                           !.out = Append(@, st.leftchar * 64 + v)]

\* The characters s[lo..hi] taken in order from state st.
RECURSIVE A2BScan(_, _, _, _)
A2BScan(s, lo, hi, st) ==
    IF lo > hi THEN st
    ELSE IF lo = hi THEN A2BStep(st, s[lo])
    ELSE LET mid == (lo + hi) \div 2
             left == A2BScan(s, lo, mid, st)
         IN  IF left.done THEN left ELSE A2BScan(s, mid + 1, hi, left)

\* binascii.a2b_base64(s): a partial quad left at the end is an error.
a2b_base64(s) ==
    LET st == A2BScan(s, 1, Len(s), A2BStart) IN
    IF st.done \/ st.quad_pos = 0 THEN Return(st.out)
    ELSE IF st.quad_pos = 1
    THEN Raise("binascii.Error", "Invalid base64-encoded string")
    ELSE Raise("binascii.Error", "Incorrect padding")

\* base64.b64decode(str): the string must be ASCII, then a2b_base64.
B64Decode(s) ==
    IF ~IsAscii(s)
    THEN Raise("ValueError", "string argument should contain only ASCII characters")
    ELSE a2b_base64(s)

---------------------------------------------------------------------------
(* The signature primitive (package `cryptography`, Ed25519 and Ed448) *)

KeySeeds == 1..MaxKeys

\* The private keys Ed25519PrivateKey.generate() can return.
Ed25519Keys == {[alg |-> "Ed25519", seed |-> n] : n \in KeySeeds}

\* A private key of another scheme, which the PEM loaders accept as well.
Ed448Key == [alg |-> "Ed448", seed |-> 1]

PrivateKeys == Ed25519Keys \cup {Ed448Key}

RECURSIVE ModExp(_, _, _)
ModExp(g, e, p) == IF e = 0 THEN 1 ELSE (g * ModExp(g, e - 1, p)) % p

\* The public point of a private seed: one-way and injective on the seeds.
PublicPoint(seed) == ModExp(2, seed, 101)

\* private_key.public_key()
public_key_of(priv) == [alg |-> priv.alg, point |-> PublicPoint(priv.seed)]

PublicKeys == {public_key_of(k) : k \in PrivateKeys}

\* Length in bytes of a signature of the scheme.
SignatureSize(alg) == IF alg = "Ed25519" THEN 64 ELSE 114

\* private_key.sign(message): deterministic; the first half of the signature
\* is the length-prefixed message, padded, the second half ties it to the
\* seed, so distinct (key, message) pairs give distinct signatures.
Ed25519Sign(priv, message) ==
    LET half == SignatureSize(priv.alg) \div 2
        r == [i \in 1..half |->
                IF i = 1 THEN Len(message)
                ELSE IF i - 1 <= Len(message) THEN message[i - 1] ELSE 0]
    IN  r \o [i \in 1..half |-> (r[i] + priv.seed) % 256]

\* A base64 string with the character at position p moved d places on in
\* the alphabet.
FlipChar(s, p, d) == [s EXCEPT ![p] = B64Char((B64Index(@) + d) % 64)]

\* What a holder of the signature string s may hand on instead of s.
Tampered(s) ==
    { FlipChar(s, 1, 1),               \* first character
      FlipChar(s, Len(s) - 2, 16),     \* last data character, its data bits
      FlipChar(s, Len(s) - 2, 1),      \* last data character, its low bits
      <<33>> \o s,                     \* a character outside the alphabet added
      SubSeq(s, 1, Len(s) - 4),        \* last group of four cut off
      SubSeq(s, 1, Len(s) - 1),        \* last character cut off
      [s EXCEPT ![1] = 233] }          \* a non-ASCII character

\* The library calls are pure; their values on the byte strings that occur
\* are tabulated once, and the calls below look them up.
MessageBytes == {COVENANT_MESSAGE, ALTERED_MESSAGE}
RawSignatures == {Ed25519Sign(k, m) : k \in PrivateKeys, m \in MessageBytes}
SignatureStrings == {decode(B64Encode(r)) : r \in RawSignatures}
CovenantSignatures ==
    {decode(B64Encode(Ed25519Sign(k, COVENANT_MESSAGE))) : k \in PrivateKeys}
SignatureTexts == SignatureStrings \cup UNION {Tampered(s) : s \in CovenantSignatures}

SignTable == [a \in PrivateKeys \X MessageBytes |-> Ed25519Sign(a[1], a[2])]
B64EncodeTable == [r \in RawSignatures |-> B64Encode(r)]
B64DecodeTable == [s \in SignatureTexts |-> B64Decode(s)]

private_key_sign(priv, message) ==
    IF <<priv, message>> \in DOMAIN SignTable
    THEN SignTable[<<priv, message>>] ELSE Ed25519Sign(priv, message)

b64encode(b) == IF b \in DOMAIN B64EncodeTable THEN B64EncodeTable[b] ELSE B64Encode(b)

b64decode(s) == IF s \in DOMAIN B64DecodeTable THEN B64DecodeTable[s] ELSE B64Decode(s)

\* Variants of the verification primitive: one that accepts the signature of
\* any private key, one that accepts a signature of any message, and one
\* that does not look at the last byte of the signature.
public_key_verify_any_key(pub, signature, message) ==
    /\ Len(signature) = SignatureSize(pub.alg)
    /\ \E k \in PrivateKeys : signature = private_key_sign(k, message)

public_key_verify_any_message(pub, signature, message) ==
    /\ Len(signature) = SignatureSize(pub.alg)
    /\ \E k \in PrivateKeys, m \in MessageBytes :
          /\ public_key_of(k) = pub
          /\ signature = private_key_sign(k, m)

public_key_verify_prefix(pub, signature, message) ==
    /\ Len(signature) = SignatureSize(pub.alg)
    /\ \E k \in PrivateKeys :
          /\ public_key_of(k) = pub
          /\ SubSeq(signature, 1, Len(signature) - 1)
                = SubSeq(private_key_sign(k, message), 1, Len(signature) - 1)

\* public_key.verify(signature, message) returns normally (TRUE here) or
\* raises InvalidSignature (FALSE here): also for a signature of wrong length.
public_key_verify(pub, signature, message) ==
    /\ Len(signature) = SignatureSize(pub.alg)
    /\ \E k \in PrivateKeys :
          /\ public_key_of(k) = pub
          /\ signature = private_key_sign(k, message)

---------------------------------------------------------------------------
(* PEM encoding of keys *)

OID(alg) == IF alg = "Ed25519" THEN 112 ELSE 113

\* private_key.private_bytes(PEM, PKCS8, NoEncryption()).decode()
private_bytes(priv) == [armor |-> "PRIVATE KEY", body |-> <<OID(priv.alg), priv.seed>>]

\* public_key.public_bytes(PEM, SubjectPublicKeyInfo).decode()
public_bytes(pub) == [armor |-> "PUBLIC KEY", body |-> <<OID(pub.alg), pub.point>>]

\* The string "" and a non-empty string that is no PEM.
EmptyText == [armor |-> "", body |-> <<>>]
GarbageText == [armor |-> "", body |-> <<110, 111>>]

WellFormedBody(body) == Len(body) = 2 /\ body[1] \in {112, 113}
AlgOfOID(oid) == IF oid = 112 THEN "Ed25519" ELSE "Ed448"

\* serialization.load_pem_private_key(text.encode(), password=None):
\* a private key of any supported scheme, or ValueError.
load_pem_private_key(text) ==
    IF text.armor = "PRIVATE KEY" /\ WellFormedBody(text.body)
    THEN Return([alg |-> AlgOfOID(text.body[1]), seed |-> text.body[2]])
    ELSE Raise("ValueError", "Could not deserialize key data")

\* serialization.load_pem_public_key(text.encode())
load_pem_public_key(text) ==
    IF text.armor = "PUBLIC KEY" /\ WellFormedBody(text.body)
    THEN Return([alg |-> AlgOfOID(text.body[1]), point |-> text.body[2]])
    ELSE Raise("ValueError", "Unable to load PEM file")

---------------------------------------------------------------------------
(* class CryptographicSeal *)

\* Python truth value of an optional string argument.
Truthy(arg) == ~IsNone(arg) /\ arg[1] # EmptyText

\* CryptographicSeal.__init__(private_key_pem, public_key_pem); `fresh` is
\* the key Ed25519PrivateKey.generate() draws when it is called.
CryptographicSeal(private_key_pem, public_key_pem, fresh) ==
    IF Truthy(private_key_pem) /\ Truthy(public_key_pem)
    THEN LET priv == load_pem_private_key(private_key_pem[1])
             pub == load_pem_public_key(public_key_pem[1])
         IN  IF Raised(priv) THEN priv
             ELSE IF Raised(pub) THEN pub
             ELSE Return([class |-> "CryptographicSeal",
                          private_key |-> priv.ret[1],
                          public_key |-> pub.ret[1]])
    ELSE Return([class |-> "CryptographicSeal",
                 private_key |-> fresh,
                 public_key |-> public_key_of(fresh)])

get_private_key_pem(self) == private_bytes(self.private_key)

get_public_key_pem(self) == public_bytes(self.public_key)

\* The message argument, defaulted.
MessageOrDefault(message) == IF IsNone(message) THEN COVENANT_MESSAGE ELSE message[1]

\* CryptographicSeal.sign(message): the base64 string of the signature.
sign(self, message) ==
    Return(decode(b64encode(private_key_sign(self.private_key, MessageOrDefault(message)))))

\* Variants of verify: one that does not replace a missing message by the
\* covenant message, and one that decodes the signature inside the try block.
verify_without_default(self, message, signature_b64) ==
    IF IsNone(signature_b64)
    THEN Raise("ValueError", "Signature required for verification")
    ELSE LET signature == b64decode(signature_b64[1]) IN
         IF Raised(signature) THEN signature
         ELSE IF public_key_verify(self.public_key, signature.ret[1],
                                   IF IsNone(message) THEN <<>> ELSE message[1])
         THEN Return(TRUE)
         ELSE Raise("ValueError", "Signature verification failed: ")

verify_decode_inside_try(self, message, signature_b64) ==
    IF IsNone(signature_b64)
    THEN Raise("ValueError", "Signature required for verification")
    ELSE LET signature == b64decode(signature_b64[1]) IN
         IF /\ ~Raised(signature)
            /\ public_key_verify(self.public_key, signature.ret[1], MessageOrDefault(message))
         THEN Return(TRUE)
         ELSE Raise("ValueError", "Signature verification failed: ")

\* CryptographicSeal.verify(message, signature_b64)
verify(self, message, signature_b64) ==
    IF IsNone(signature_b64)
    THEN Raise("ValueError", "Signature required for verification")
    ELSE LET signature == b64decode(signature_b64[1]) IN
         IF Raised(signature) THEN signature
         ELSE IF public_key_verify(self.public_key, signature.ret[1], MessageOrDefault(message))
         THEN Return(TRUE)
         ELSE Raise("ValueError", "Signature verification failed: ")

\* CryptographicSeal.create_sealed_covenant()
create_sealed_covenant(self) ==
    Return([covenant |-> decode(COVENANT_MESSAGE),
            signature |-> sign(self, None).ret[1],
            algorithm |-> "Ed25519",
            public_key |-> get_public_key_pem(self),
            verified |-> TRUE])

\* CryptographicSeal.verify_sealed_covenant(sealed_covenant)
verify_sealed_covenant(self, sealed_covenant) ==
    verify(self, Some(encode(sealed_covenant.covenant)), Some(sealed_covenant.signature))

---------------------------------------------------------------------------
(* class HierarchicalSeal *)

\* HierarchicalSeal.__init__()
HierarchicalSeal(fresh) ==
    Return([class |-> "HierarchicalSeal",
            crypto_seal |-> CryptographicSeal(None, None, fresh).ret[1],
            hieroglyphic_sigil |-> "sigil",
            metaphoric_covenant |-> decode(COVENANT_MESSAGE)])

\* HierarchicalSeal.create_complete_seal()
create_complete_seal(self) ==
    LET crypto_seal == create_sealed_covenant(self.crypto_seal).ret[1] IN
    Return([integrity |-> [hash |-> SubSeq(crypto_seal.signature, 1, 16) \o <<46, 46, 46>>,
                           algorithm |-> crypto_seal.algorithm,
                           full_signature |-> crypto_seal.signature,
                           public_key |-> crypto_seal.public_key],
            sigil |-> self.hieroglyphic_sigil,
            covenant |-> self.metaphoric_covenant,
            orientation |-> [ontology |-> "0.85", relational |-> "delta",
                             temporal |-> "persistent", phase |-> "field-aligned"],
            verification |-> [status |-> "VERIFIED",
                              method |-> "Ed25519 Asymmetric Signature",
                              message |-> decode(COVENANT_MESSAGE)]])

\* A variant of verify_complete_seal without the try block.
verify_complete_seal_no_except(self, sealed_object) ==
    verify_sealed_covenant(self.crypto_seal,
                           [covenant |-> sealed_object.covenant,
                            signature |-> sealed_object.integrity.full_signature,
                            public_key |-> sealed_object.integrity.public_key])

\* HierarchicalSeal.verify_complete_seal(sealed_object): every exception of
\* the verification is caught and turned into False.
verify_complete_seal(self, sealed_object) ==
    LET sealed_covenant == [covenant |-> sealed_object.covenant,
                            signature |-> sealed_object.integrity.full_signature,
                            public_key |-> sealed_object.integrity.public_key]
        outcome == verify_sealed_covenant(self.crypto_seal, sealed_covenant)
    IN  IF Raised(outcome) THEN Return(FALSE) ELSE outcome

---------------------------------------------------------------------------
(* The inputs the calls are made with *)

\* The two seal objects the program holds: k1 is constructed first.
SealIds == {"k1", "k2"}

\* Messages passed to sign and verify: None stands for the default.
Messages == {None, Some(COVENANT_MESSAGE), Some(ALTERED_MESSAGE)}

\* Strings passed to the constructor as PEM arguments.
PemArgs ==
    {None, Some(EmptyText), Some(GarbageText)}
        \cup {Some(private_bytes(k)) : k \in PrivateKeys}
        \cup {Some(public_bytes(q)) : q \in PublicKeys}

IsCryptographicSeal(id) == seals[id] # None /\ seals[id][1].class = "CryptographicSeal"
IsHierarchicalSeal(id) == seals[id] # None /\ seals[id][1].class = "HierarchicalSeal"

\* The CryptographicSeal objects that hold a private key and its public key.
KeyPairSeals ==
    {[class |-> "CryptographicSeal", private_key |-> k, public_key |-> public_key_of(k)] :
        k \in PrivateKeys}

\* Signature arguments of verify: None, the signatures the keys produce for
\* the messages, and their tampered forms.
SignatureArgs == {None} \cup {Some(s) : s \in SignatureTexts}

\* Sealed covenant objects passed to verify_sealed_covenant: as created by a
\* seal, with the covenant replaced, with the signature tampered.
SealedCovenants ==
    LET made == {create_sealed_covenant(o).ret[1] : o \in KeyPairSeals}
    IN  made \cup {[c EXCEPT !.covenant = decode(ALTERED_MESSAGE)] : c \in made}
             \cup {[c EXCEPT !.signature = FlipChar(@, 1, 1)] : c \in made}

\* Complete seals passed to verify_complete_seal, likewise.
CompleteSeals ==
    LET made == {create_complete_seal(HierarchicalSeal(k).ret[1]).ret[1] : k \in Ed25519Keys}
    IN  made \cup {[c EXCEPT !.covenant = decode(ALTERED_MESSAGE)] : c \in made}
             \cup {[c EXCEPT !.integrity.full_signature = FlipChar(@, 1, 1)] : c \in made}

---------------------------------------------------------------------------
(* The state machine: the program constructs seals and calls their methods *)

Idle == [op |-> "idle", seal |-> "", args |-> <<>>, out |-> Return(None)]

IsIdle == last.op = "idle"

Call(op, id, args, outcome) == [op |-> op, seal |-> id, args |-> args, out |-> outcome]

\* The kind of PEM arguments of a constructor call.
Given(private_key_pem, public_key_pem) ==
    IF IsNone(private_key_pem) /\ IsNone(public_key_pem) THEN "no arguments"
    ELSE IF Truthy(private_key_pem) /\ Truthy(public_key_pem) THEN "both"
    ELSE IF IsNone(private_key_pem) /\ Truthy(public_key_pem) THEN "public only"
    ELSE "other"

SealInit ==
    /\ seals = [id \in SealIds |-> None]
    /\ given = [id \in SealIds |-> ""]
    /\ last = Idle
    /\ ThreadsParked /\ TestsParked /\ CoreParked /\ EngineParked /\ TriParked

\* A slot can be filled once, k1 before k2.
CanConstruct(id) ==
    /\ IsIdle
    /\ seals[id] = None
    /\ id = "k2" => seals["k1"] # None

\* k = CryptographicSeal(private_key_pem, public_key_pem)
Construct(id, private_key_pem, public_key_pem, fresh) ==
    /\ CanConstruct(id)
    /\ LET outcome == CryptographicSeal(private_key_pem, public_key_pem, fresh) IN
       /\ seals' = IF Raised(outcome) THEN seals
                   ELSE [seals EXCEPT ![id] = Some(outcome.ret[1])]
       /\ given' = IF Raised(outcome) THEN given
                   ELSE [given EXCEPT ![id] = Given(private_key_pem, public_key_pem)]
       /\ last' = Call("__init__", id, <<private_key_pem, public_key_pem>>, outcome)
    /\ UNCHANGED otherThanSeals

\* h = HierarchicalSeal()
ConstructHierarchical(id, fresh) ==
    /\ CanConstruct(id)
    /\ LET outcome == HierarchicalSeal(fresh) IN
       /\ seals' = [seals EXCEPT ![id] = Some(outcome.ret[1])]
       /\ given' = [given EXCEPT ![id] = "no arguments"]
       /\ last' = Call("HierarchicalSeal", id, <<>>, outcome)
    /\ UNCHANGED otherThanSeals

\* k.sign(message)
Sign(id, message) ==
    /\ IsIdle
    /\ IsCryptographicSeal(id)
    /\ last' = Call("sign", id, <<message>>, sign(seals[id][1], message))
    /\ UNCHANGED <<seals, given>>
    /\ UNCHANGED otherThanSeals

\* k.verify(message, signature_b64)
Verify(id, message, signature_b64) ==
    /\ IsIdle
    /\ IsCryptographicSeal(id)
    /\ last' = Call("verify", id, <<message, signature_b64>>,
                    verify(seals[id][1], message, signature_b64))
    /\ UNCHANGED <<seals, given>>
    /\ UNCHANGED otherThanSeals

\* k.get_private_key_pem() / k.get_public_key_pem()
GetPrivateKeyPem(id) ==
    /\ IsIdle
    /\ IsCryptographicSeal(id)
    /\ last' = Call("get_private_key_pem", id, <<>>, Return(get_private_key_pem(seals[id][1])))
    /\ UNCHANGED <<seals, given>>
    /\ UNCHANGED otherThanSeals

GetPublicKeyPem(id) ==
    /\ IsIdle
    /\ IsCryptographicSeal(id)
    /\ last' = Call("get_public_key_pem", id, <<>>, Return(get_public_key_pem(seals[id][1])))
    /\ UNCHANGED <<seals, given>>
    /\ UNCHANGED otherThanSeals

\* k.create_sealed_covenant()
CreateSealedCovenant(id) ==
    /\ IsIdle
    /\ IsCryptographicSeal(id)
    /\ last' = Call("create_sealed_covenant", id, <<>>, create_sealed_covenant(seals[id][1]))
    /\ UNCHANGED <<seals, given>>
    /\ UNCHANGED otherThanSeals

\* k.verify_sealed_covenant(sealed_covenant)
VerifySealedCovenant(id, sealed_covenant) ==
    /\ IsIdle
    /\ IsCryptographicSeal(id)
    /\ last' = Call("verify_sealed_covenant", id, <<sealed_covenant>>,
                    verify_sealed_covenant(seals[id][1], sealed_covenant))
    /\ UNCHANGED <<seals, given>>
    /\ UNCHANGED otherThanSeals

\* h.create_complete_seal()
CreateCompleteSeal(id) ==
    /\ IsIdle
    /\ IsHierarchicalSeal(id)
    /\ last' = Call("create_complete_seal", id, <<>>, create_complete_seal(seals[id][1]))
    /\ UNCHANGED <<seals, given>>
    /\ UNCHANGED otherThanSeals

\* h.verify_complete_seal(sealed_object)
VerifyCompleteSeal(id, sealed_object) ==
    /\ IsIdle
    /\ IsHierarchicalSeal(id)
    /\ last' = Call("verify_complete_seal", id, <<sealed_object>>,
                    verify_complete_seal(seals[id][1], sealed_object))
    /\ UNCHANGED <<seals, given>>
    /\ UNCHANGED otherThanSeals

\* demonstrate_cryptographic_seal, "[5] TAMPERING DETECTION TEST": what the
\* test prints for a HierarchicalSeal and the complete seal it created.
tampering_detection_test(hierarchical, complete_seal) ==
    LET tampered == [complete_seal EXCEPT !.covenant = decode(ALTERED_MESSAGE)]
    IN  IF Raised(verify_complete_seal(hierarchical, tampered))
        THEN "Tampering detected! Seal is protected."
        ELSE "ERROR: Tampered seal was accepted!"

TamperingDetectionTest(id) ==
    /\ IsIdle
    /\ IsHierarchicalSeal(id)
    /\ last' = Call("tampering_detection_test", id, <<>>,
                    Return(tampering_detection_test(seals[id][1],
                               create_complete_seal(seals[id][1]).ret[1])))
    /\ UNCHANGED <<seals, given>>
    /\ UNCHANGED otherThanSeals

\* The caller has looked at the outcome and goes on to its next call.
Continue ==
    /\ ~IsIdle
    /\ last' = Idle
    /\ UNCHANGED <<seals, given>>
    /\ UNCHANGED otherThanSeals

SealNext ==
    \/ \E id \in SealIds, a \in PemArgs, b \in PemArgs, k \in Ed25519Keys :
          Construct(id, a, b, k)
    \/ \E id \in SealIds, k \in Ed25519Keys : ConstructHierarchical(id, k)
    \/ \E id \in SealIds, m \in Messages : Sign(id, m)
    \/ \E id \in SealIds, m \in Messages, s \in SignatureArgs : Verify(id, m, s)
    \/ \E id \in SealIds : GetPrivateKeyPem(id)
    \/ \E id \in SealIds : GetPublicKeyPem(id)
    \/ \E id \in SealIds : CreateSealedCovenant(id)
    \/ \E id \in SealIds, c \in SealedCovenants : VerifySealedCovenant(id, c)
    \/ \E id \in SealIds : CreateCompleteSeal(id)
    \/ \E id \in SealIds, c \in CompleteSeals : VerifyCompleteSeal(id, c)
    \/ \E id \in SealIds : TamperingDetectionTest(id)
    \/ Continue

SealSpec == SealInit /\ [][SealNext]_vars

---------------------------------------------------------------------------
(* Properties of CryptographicSeal.sign and CryptographicSeal.verify *)

\* The object in a slot, and the seal and arguments of the last call.
Seal(id) == seals[id][1]
Self == Seal(last.seal)
IsCall(op) == last.op = op

\* The error verify raises when the public key rejects the signature.
VerificationFailed == Raise("ValueError", "Signature verification failed: ")

\* The signature string seal `self` produces for a message argument.
SignatureOf(self, message) == sign(self, message).ret[1]

\* C1: a seal constructed with no PEM arguments accepts, for every message,
\* the signature it produced for that message: verify returns True.
C1_FreshSealVerifiesOwnSignature ==
    (/\ IsCall("verify")
     /\ given[last.seal] = "no arguments"
     /\ last.args[2] = Some(SignatureOf(Self, last.args[1])))
        => Returned(last.out, TRUE)

C1_Witness ==
    /\ IsCall("verify")
    /\ given[last.seal] = "no arguments"
    /\ last.args[1] = Some(ALTERED_MESSAGE)
    /\ last.args[2] = Some(SignatureOf(Self, last.args[1]))
    /\ Returned(last.out, TRUE)

\* The other slot.
Other(id) == IF id = "k1" THEN "k2" ELSE "k1"

DiffCount(a, b) == Cardinality({i \in 1..Len(a) : a[i] # b[i]})

\* s2 is s1 with one character changed, and still decodes to a byte string
\* of the length of a signature.
OneCharChanged(s1, s2, size) ==
    /\ Len(s2) = Len(s1)
    /\ DiffCount(s1, s2) = 1
    /\ ~Raised(b64decode(s2))
    /\ Len(b64decode(s2).ret[1]) = size

OneByteChanged(raw, s) ==
    /\ ~Raised(b64decode(s))
    /\ Len(b64decode(s).ret[1]) = Len(raw)
    /\ DiffCount(raw, b64decode(s).ret[1]) = 1

C4_SameBytesAccepted ==
    /\ IsCall("verify")
    /\ ~IsNone(last.args[2])
    /\ last.args[2][1] = FlipChar(SignatureOf(Self, last.args[1]), 86, 1)
    /\ Returned(last.out, TRUE)

---------------------------------------------------------------------------
(* Properties of construction, export and import *)

\* The last call constructed the seal in its slot from the PEM texts that
\* the seal in the other slot exports.
ImportedFromOther ==
    /\ IsCall("__init__")
    /\ ~Raised(last.out)
    /\ IsCryptographicSeal(Other(last.seal))
    /\ last.args = <<Some(get_private_key_pem(Seal(Other(last.seal)))),
                     Some(get_public_key_pem(Seal(Other(last.seal))))>>

\* C5 as stated: for every seal k, the seal k2 constructed from the PEM texts
\* k exports signs every message as k does, and each of the two accepts the
\* other's signatures.
C5_ExportImportRoundTrip ==
    ImportedFromOther =>
        \A m \in Messages :
            /\ sign(Self, m) = sign(Seal(Other(last.seal)), m)
            /\ Returned(verify(Self, m, Some(SignatureOf(Seal(Other(last.seal)), m))), TRUE)
            /\ Returned(verify(Seal(Other(last.seal)), m, Some(SignatureOf(Self, m))), TRUE)

C7_SignWithoutPrivateKeyFails ==
    (IsCall("sign") /\ given[last.seal] = "public only") => Raised(last.out)

\* A PEM argument that is supplied but is no Ed25519 key of the kind the
\* parameter takes: empty, not PEM at all, of the other kind, or of another
\* scheme.
Malformed(arg, armor) ==
    /\ ~IsNone(arg)
    /\ \/ arg[1].armor # armor
       \/ ~WellFormedBody(arg[1].body)
       \/ AlgOfOID(arg[1].body[1]) # "Ed25519"

\* C8 as stated: constructing a seal with a malformed or wrong-scheme PEM
\* for either key ends in an error and constructs no seal.
C8_MalformedImportFails ==
    (/\ IsCall("__init__")
     /\ \/ Malformed(last.args[1], "PRIVATE KEY")
        \/ Malformed(last.args[2], "PUBLIC KEY"))
        => Raised(last.out)

\* C9 as stated: in every seal, however constructed and whatever was called
\* since, public_key is the public key of private_key.
C9_PublicKeyDerivedFromPrivateKey ==
    \A id \in SealIds :
        IsCryptographicSeal(id) =>
            Seal(id).public_key = public_key_of(Seal(id).private_key)

\* The signature argument of the last call decodes, to these bytes.
Decodes == ~Raised(b64decode(last.args[2][1]))
Decoded == b64decode(last.args[2][1]).ret[1]

---------------------------------------------------------------------------
(* Properties of the sealed covenant and the complete seal *)

\* C12 as stated: the sealed covenant one CryptographicSeal creates is
\* accepted (True) by verify_sealed_covenant of any other instance.
C12_SealedCovenantVerifiesAnywhere ==
    (/\ IsCall("verify_sealed_covenant")
     /\ IsCryptographicSeal(Other(last.seal))
     /\ last.args[1] = create_sealed_covenant(Seal(Other(last.seal))).ret[1])
        => Returned(last.out, TRUE)

\* C13 as stated: the tampering detection test, run on a HierarchicalSeal
\* and its complete seal with the covenant altered, reports "Tampering
\* detected" and not "Tampered seal was accepted".
C13_TamperingTestReportsDetection ==
    IsCall("tampering_detection_test")
        => last.out = Return("Tampering detected! Seal is protected.")

---------------------------------------------------------------------------
(* Part II: threads that call the methods of one CryptographicSeal          *)
(* concurrently.  sign and verify run one statement at a time, so that the  *)
(* statements of different threads interleave in every order; the other     *)
(* methods run as one step.                                                 *)

Threads == {"t1", "t2"}

\* The instances the threads can share.
SharedSeals == KeyPairSeals

\* message, signature_b64 and signature are local variables of a call: each
\* thread's call has its own.
Shared_Locals(t) == "t1"

Locals(t) == t

NoLocals == [message |-> None, signature_b64 |-> None, signature |-> <<>>]

\* What a thread knows of its call: the line it is at, the method, the
\* arguments it passed and, at line "done", the outcome.
NotCalling == [line |-> "idle", op |-> "", args |-> <<>>, out |-> Return(None)]
At(t, line) == pc[t].line = line
Goto(t, line) == pc' = [pc EXCEPT ![t].line = line]
Local(t) == frame[Locals(t)]

\* A return or raise ends the call: the thread has the outcome, the local
\* variables are gone.
Finish(t, outcome) ==
    /\ pc' = [pc EXCEPT ![t].line = "done", ![t].out = outcome]
    /\ frame' = [frame EXCEPT ![Locals(t)] = NoLocals]

\* The signature_b64 arguments the threads pass: none, the signature of the
\* covenant message under each key, and such a signature cut short.
ThreadSignatureArgs ==
    {None} \cup {Some(s) : s \in CovenantSignatures}
           \cup {Some(SubSeq(s, 1, Len(s) - 1)) : s \in CovenantSignatures}

\* Python's TypeError for None where bytes or str are required.
TypeError == Raise("TypeError", "argument must not be None")

ThreadInit ==
    /\ shared \in SharedSeals
    /\ pc = [t \in Threads |-> NotCalling]
    /\ frame = [t \in Threads |-> NoLocals]
    /\ SealsParked /\ TestsParked /\ CoreParked /\ EngineParked /\ TriParked

\* line 75: a thread calls shared.sign(message)
CallSign(t, message) ==
    /\ At(t, "idle")
    /\ pc' = [pc EXCEPT ![t] = [line |-> "sign:85", op |-> "sign",
                                args |-> <<message>>, out |-> Return(None)]]
    /\ frame' = [frame EXCEPT ![Locals(t)].message = message]
    /\ UNCHANGED shared
    /\ UNCHANGED otherThanThreads

\* lines 85-86: if message is None: message = self.COVENANT_MESSAGE
Sign85(t) ==
    /\ At(t, "sign:85")
    /\ frame' = [frame EXCEPT ![Locals(t)].message = Some(MessageOrDefault(@))]
    /\ Goto(t, "sign:88")
    /\ UNCHANGED shared
    /\ UNCHANGED otherThanThreads

\* line 88: signature = self.private_key.sign(message)
Sign88(t) ==
    /\ At(t, "sign:88")
    /\ IF IsNone(Local(t).message)
       THEN Finish(t, TypeError)
       ELSE /\ frame' = [frame EXCEPT ![Locals(t)].signature =
                            private_key_sign(shared.private_key, Local(t).message[1])]
            /\ Goto(t, "sign:89")
    /\ UNCHANGED shared
    /\ UNCHANGED otherThanThreads

\* line 89: return base64.b64encode(signature).decode()
Sign89(t) ==
    /\ At(t, "sign:89")
    /\ Finish(t, Return(decode(b64encode(Local(t).signature))))
    /\ UNCHANGED shared
    /\ UNCHANGED otherThanThreads

\* line 91: a thread calls shared.verify(message, signature_b64)
CallVerify(t, message, signature_b64) ==
    /\ At(t, "idle")
    /\ pc' = [pc EXCEPT ![t] = [line |-> "verify:102", op |-> "verify",
                                args |-> <<message, signature_b64>>,
                                out |-> Return(None)]]
    /\ frame' = [frame EXCEPT ![Locals(t)].message = message,
                              ![Locals(t)].signature_b64 = signature_b64]
    /\ UNCHANGED shared
    /\ UNCHANGED otherThanThreads

\* lines 102-103: if message is None: message = self.COVENANT_MESSAGE
Verify102(t) ==
    /\ At(t, "verify:102")
    /\ frame' = [frame EXCEPT ![Locals(t)].message = Some(MessageOrDefault(@))]
    /\ Goto(t, "verify:105")
    /\ UNCHANGED shared
    /\ UNCHANGED otherThanThreads

\* lines 105-106: if signature_b64 is None: raise ValueError
Verify105(t) ==
    /\ At(t, "verify:105")
    /\ IF IsNone(Local(t).signature_b64)
       THEN Finish(t, Raise("ValueError", "Signature required for verification"))
       ELSE Goto(t, "verify:108") /\ UNCHANGED frame
    /\ UNCHANGED shared
    /\ UNCHANGED otherThanThreads

\* line 108: signature = base64.b64decode(signature_b64)
Verify108(t) ==
    /\ At(t, "verify:108")
    /\ IF IsNone(Local(t).signature_b64)
       THEN Finish(t, TypeError)
       ELSE LET signature == b64decode(Local(t).signature_b64[1]) IN
            IF Raised(signature)
            THEN Finish(t, signature)
            ELSE /\ frame' = [frame EXCEPT ![Locals(t)].signature = signature.ret[1]]
                 /\ Goto(t, "verify:110")
    /\ UNCHANGED shared
    /\ UNCHANGED otherThanThreads

\* lines 110-114: self.public_key.verify(signature, message); return True,
\* or raise ValueError for any exception of it
Verify110(t) ==
    /\ At(t, "verify:110")
    /\ IF /\ ~IsNone(Local(t).message)
          /\ public_key_verify(shared.public_key, Local(t).signature, Local(t).message[1])
       THEN Finish(t, Return(TRUE))
       ELSE Finish(t, Raise("ValueError", "Signature verification failed: "))
    /\ UNCHANGED shared
    /\ UNCHANGED otherThanThreads

\* The methods that run as one step, and what each returns.
OtherMethods == {"get_private_key_pem", "get_public_key_pem", "create_sealed_covenant"}

Sequential(self, op, args) ==
    CASE op = "sign" -> sign(self, args[1])
      [] op = "verify" -> verify(self, args[1], args[2])
      [] op = "get_private_key_pem" -> Return(get_private_key_pem(self))
      [] op = "get_public_key_pem" -> Return(get_public_key_pem(self))
      [] op = "create_sealed_covenant" -> create_sealed_covenant(self)
      [] op = "verify_sealed_covenant" -> verify_sealed_covenant(self, args[1])

\* lines 58-73, 116-131: get_private_key_pem(), get_public_key_pem(),
\* create_sealed_covenant()
CallOther(t, op) ==
    /\ At(t, "idle")
    /\ pc' = [pc EXCEPT ![t] = [line |-> "done", op |-> op, args |-> <<>>,
                                out |-> Sequential(shared, op, <<>>)]]
    /\ UNCHANGED <<shared, frame>>
    /\ UNCHANGED otherThanThreads

\* lines 133-146: verify_sealed_covenant(sealed_covenant)
CallVerifySealedCovenant(t, sealed_covenant) ==
    /\ At(t, "idle")
    /\ pc' = [pc EXCEPT ![t] = [line |-> "done", op |-> "verify_sealed_covenant",
                                args |-> <<sealed_covenant>>,
                                out |-> verify_sealed_covenant(shared, sealed_covenant)]]
    /\ UNCHANGED <<shared, frame>>
    /\ UNCHANGED otherThanThreads

\* The caller has its outcome and is free to call again.
Done(t) ==
    /\ At(t, "done")
    /\ pc' = [pc EXCEPT ![t] = NotCalling]
    /\ UNCHANGED <<shared, frame>>
    /\ UNCHANGED otherThanThreads

ThreadNext ==
    \/ \E t \in Threads, m \in Messages : CallSign(t, m)
    \/ \E t \in Threads : Sign85(t)
    \/ \E t \in Threads : Sign88(t)
    \/ \E t \in Threads : Sign89(t)
    \/ \E t \in Threads, m \in Messages, s \in ThreadSignatureArgs : CallVerify(t, m, s)
    \/ \E t \in Threads : Verify102(t)
    \/ \E t \in Threads : Verify105(t)
    \/ \E t \in Threads : Verify108(t)
    \/ \E t \in Threads : Verify110(t)
    \/ \E t \in Threads, op \in OtherMethods : CallOther(t, op)
    \/ \E t \in Threads, c \in SealedCovenants : CallVerifySealedCovenant(t, c)
    \/ \E t \in Threads : Done(t)

ThreadSpec == ThreadInit /\ [][ThreadNext]_vars

\* Every finished call has the outcome the method gives when it runs alone.
SequentialOutcomes ==
    \A t \in Threads :
        At(t, "done") => pc[t].out = Sequential(shared, pc[t].op, pc[t].args)

\* C11: no step of any method of CryptographicSeal writes private_key or
\* public_key of the instance, and however the statements of concurrent
\* calls interleave, every call ends with the outcome it has when the calls
\* run one after another.
C11_ConcurrentCallsAsSequential ==
    /\ []SequentialOutcomes
    /\ [][shared' = shared]_vars

\* A sign call has finished while a verify call of the other thread, begun
\* before it finished, is about to check the signature.
C11_Witness ==
    /\ At("t1", "done") /\ pc["t1"].op = "sign"
    /\ pc["t1"].out = sign(shared, pc["t1"].args[1])
    /\ At("t2", "verify:110")
    /\ pc["t2"].args[1] # pc["t1"].args[1]

---------------------------------------------------------------------------
(* Part III: src/test_resonance.py, the ResonanceTest suite.                *)
(* Decimal numbers are counted in thousandths: 0.95 is 950.                 *)

MaxCalls == 2

Thousandths == 1000
Times(a, b) == (a * b) \div Thousandths
Over(a, b) == (a * Thousandths) \div b
Abs(a) == IF a < 0 THEN -a ELSE a

ontology_density == 950
relational_density == 1080
temporal_phase == 1000
expected == 1016
tolerance == 1

\* lambda_value = (ontology_density * relational_density) / temporal_phase
lambda_value == Over(Times(ontology_density, relational_density), temporal_phase)

\* A test method's effect: the new results['tests'], passed and failed, and
\* the value returned.
Effect(tests, p, f, ret) == [tests |-> tests, passed |-> p, failed |-> f, ret |-> ret]
Entry(name, status) == [name |-> name, status |-> status]

\* What the environment answers to the tests that look outside the program.
HttpCodes == {"200", "404", "000"}
Probes == {"ok", "not ok", "TimeoutExpired", "Exception"}

\* test_covenant_integrity
test_covenant_integrity(tests, p, f) ==
    Effect(Append(tests, Entry("Covenant Integrity", "PASS")), p + 1, f, TRUE)

\* test_lambda_calculation
test_lambda_calculation_passing(tests, p, f) ==
    Effect(Append(tests, Entry("Lambda Resonance", "PASS")), p + 1, f, TRUE)

test_lambda_calculation(tests, p, f) ==
    IF Abs(lambda_value - expected) < tolerance
    THEN Effect(Append(tests, Entry("Lambda Resonance", "PASS")), p + 1, f, TRUE)
    ELSE Effect(tests, p, f + 1, FALSE)

\* test_backend_connectivity, curl answering http_code, timing out or failing
test_backend_connectivity(tests, p, f, probe, http_code) ==
    CASE probe = "TimeoutExpired" ->
            Effect(Append(tests, Entry("Backend Connectivity", "STANDBY")), p, f, TRUE)
      [] probe = "Exception" -> Effect(tests, p, f, TRUE)
      [] OTHER ->
            IF http_code \in {"200", "404"}
            THEN Effect(Append(tests, Entry("Backend Connectivity", "PASS")), p + 1, f, TRUE)
            ELSE Effect(Append(tests, Entry("Backend Connectivity", "STANDBY")), p, f, TRUE)

\* test_component_integration, all component files being there or not
test_component_integration(tests, p, f, all_found) ==
    IF all_found
    THEN Effect(Append(tests, Entry("Component Integration", "PASS")), p + 1, f, TRUE)
    ELSE Effect(Append(tests, Entry("Component Integration", "PARTIAL")), p, f, TRUE)

\* test_deployment_scripts, all scripts being there or not
test_deployment_scripts(tests, p, f, all_found) ==
    IF all_found
    THEN Effect(Append(tests, Entry("Deployment Scripts", "PASS")), p + 1, f, TRUE)
    ELSE Effect(Append(tests, Entry("Deployment Scripts", "PARTIAL")), p, f, TRUE)

\* test_typescript_compilation, `pnpm check` succeeding, failing, timing out
\* or not starting
test_typescript_compilation(tests, p, f, probe) ==
    CASE probe = "ok" ->
            Effect(Append(tests, Entry("TypeScript Compilation", "PASS")), p + 1, f, TRUE)
      [] probe = "not ok" ->
            Effect(Append(tests, Entry("TypeScript Compilation", "FAIL")), p, f + 1, FALSE)
      [] OTHER -> Effect(tests, p, f, TRUE)

\* ResonanceTest.__init__
TestInit ==
    /\ results = [tests |-> <<>>, status |-> "PENDING"]
    /\ passed = 0
    /\ failed = 0
    /\ called = [methods |-> <<>>, ret |-> None]
    /\ SealsParked /\ ThreadsParked /\ CoreParked /\ EngineParked /\ TriParked

\* A test method is called on the tester: its effect becomes the state.
CanCall == results.status = "PENDING" /\ Len(called.methods) < MaxCalls

Apply(method, effect) ==
    /\ results' = [results EXCEPT !.tests = effect.tests]
    /\ passed' = effect.passed
    /\ failed' = effect.failed
    /\ called' = [methods |-> Append(called.methods, method), ret |-> Some(effect.ret)]
    /\ UNCHANGED otherThanTests

TestCovenantIntegrity ==
    /\ CanCall
    /\ Apply("test_covenant_integrity", test_covenant_integrity(results.tests, passed, failed))

TestLambdaCalculation ==
    /\ CanCall
    /\ Apply("test_lambda_calculation", test_lambda_calculation(results.tests, passed, failed))

TestBackendConnectivity(probe, http_code) ==
    /\ CanCall
    /\ Apply("test_backend_connectivity",
             test_backend_connectivity(results.tests, passed, failed, probe, http_code))

TestComponentIntegration(all_found) ==
    /\ CanCall
    /\ Apply("test_component_integration",
             test_component_integration(results.tests, passed, failed, all_found))

TestDeploymentScripts(all_found) ==
    /\ CanCall
    /\ Apply("test_deployment_scripts",
             test_deployment_scripts(results.tests, passed, failed, all_found))

TestTypescriptCompilation(probe) ==
    /\ CanCall
    /\ Apply("test_typescript_compilation",
             test_typescript_compilation(results.tests, passed, failed, probe))

\* run_all_tests: the six tests in their order, then the status.
run_all_tests(tests, p, f, backend, http_code, components, scripts, typescript) ==
    LET e1 == test_covenant_integrity(tests, p, f)
        e2 == test_lambda_calculation(e1.tests, e1.passed, e1.failed)
        e3 == test_backend_connectivity(e2.tests, e2.passed, e2.failed, backend, http_code)
        e4 == test_component_integration(e3.tests, e3.passed, e3.failed, components)
        e5 == test_deployment_scripts(e4.tests, e4.passed, e4.failed, scripts)
        e6 == test_typescript_compilation(e5.tests, e5.passed, e5.failed, typescript)
    IN  [tests |-> e6.tests, passed |-> e6.passed, failed |-> e6.failed,
         status |-> IF e6.failed = 0 THEN "PASS" ELSE "PARTIAL"]

RunAllTests(backend, http_code, components, scripts, typescript) ==
    /\ results.status = "PENDING"
    /\ LET end == run_all_tests(results.tests, passed, failed,
                                backend, http_code, components, scripts, typescript)
       IN  /\ results' = [tests |-> end.tests, status |-> end.status]
           /\ passed' = end.passed
           /\ failed' = end.failed
           /\ called' = [methods |-> Append(called.methods, "run_all_tests"),
                         ret |-> Some(end.status)]
    /\ UNCHANGED otherThanTests

TestNext ==
    \/ TestCovenantIntegrity
    \/ TestLambdaCalculation
    \/ \E probe \in Probes, http_code \in HttpCodes : TestBackendConnectivity(probe, http_code)
    \/ \E all_found \in BOOLEAN : TestComponentIntegration(all_found)
    \/ \E all_found \in BOOLEAN : TestDeploymentScripts(all_found)
    \/ \E probe \in Probes : TestTypescriptCompilation(probe)
    \/ \E backend \in Probes, http_code \in HttpCodes, components \in BOOLEAN,
          scripts \in BOOLEAN, typescript \in Probes :
          RunAllTests(backend, http_code, components, scripts, typescript)

TestSpec == TestInit /\ [][TestNext]_vars

LastCalled == IF called.methods = <<>> THEN "" ELSE called.methods[Len(called.methods)]

\* C14 as stated: test_lambda_calculation passes: it returns True, having
\* counted a pass and recorded a PASS entry for "Lambda Resonance"; and
\* run_all_tests can end with status PASS.
C14_LambdaTestPasses ==
    LastCalled = "test_lambda_calculation" =>
        /\ called.ret = Some(TRUE)
        /\ passed > 0
        /\ results.tests # <<>>
        /\ results.tests[Len(results.tests)] = Entry("Lambda Resonance", "PASS")

\* No run of run_all_tests ends with status PASS.
C14_RunNeverPasses == results.status # "PASS"

---------------------------------------------------------------------------
(* Part IV: src/core.py, the Harmony Ridge, the Lambda function and the     *)
(* covenant hierarchy.                                                      *)
(* The coordinates x and y are counted in quarters (x = 3 is 0.75), which  *)
(* floats hold exactly.  A point's distance from the ridge is counted in   *)
(* 120ths and its Lambda in 160ths; on the grid of quarters no value lies  *)
(* on a threshold, so that the rounding of the float operations does not   *)
(* change a comparison.                                                     *)

MaxCoord == 8
Coords == (-MaxCoord)..MaxCoord

\* RIDGE_RATIO = 5 / 3: x * RIDGE_RATIO, in 120ths, for x in quarters
project_to_ridge(x) == 50 * x

\* tolerance = 0.1, in 120ths
ridge_tolerance == 12

\* HarmonyRidge.verify_harmony_ridge(x, y)
verify_harmony_ridge(x, y) ==
    LET expected_y == project_to_ridge(x)
    IN  Abs(30 * y - expected_y) <= ridge_tolerance

\* SpiritualHealth.calculate_spiritual_health(x, y), in 160ths
calculate_spiritual_health(x, y) == 4 * (x * x) + 3 * (y * y) + 3 * x * y

\* threshold = 0.5, in 160ths
harmony_threshold == 80

\* SpiritualHealth.is_harmonious(x, y)
is_harmonious(x, y) ==
    LET lambda_score == calculate_spiritual_health(x, y)
    IN  lambda_score < harmony_threshold

LEVEL_GOD == 1
LEVEL_SPIRIT == 2
LEVEL_OMNISSIAH == 3
LEVEL_DEMON == 4
Levels == {LEVEL_GOD, LEVEL_SPIRIT, LEVEL_OMNISSIAH, LEVEL_DEMON}

\* CovenantHierarchy.validate_command_flow(from_level, to_level)
validate_command_flow(from_level, to_level) ==
    IF from_level > to_level
    THEN Raise("PermissionError", "OMNISSIAH cannot command upward.")
    ELSE Return(TRUE)

CoreInit ==
    /\ evaluated = [fn |-> "", args |-> <<>>, out |-> Return(None)]
    /\ SealsParked /\ ThreadsParked /\ TestsParked /\ EngineParked /\ TriParked

Evaluate(fn, args, out) ==
    /\ evaluated' = [fn |-> fn, args |-> args, out |-> out]
    /\ UNCHANGED otherThanCore

VerifyHarmonyRidge(x, y) ==
    Evaluate("verify_harmony_ridge", <<x, y>>, Return(verify_harmony_ridge(x, y)))

CalculateSpiritualHealth(x, y) ==
    Evaluate("calculate_spiritual_health", <<x, y>>, Return(calculate_spiritual_health(x, y)))

IsHarmonious(x, y) ==
    Evaluate("is_harmonious", <<x, y>>, Return(is_harmonious(x, y)))

ValidateCommandFlow(from_level, to_level) ==
    Evaluate("validate_command_flow", <<from_level, to_level>>,
             validate_command_flow(from_level, to_level))

CoreNext ==
    \/ \E x \in Coords, y \in Coords : VerifyHarmonyRidge(x, y)
    \/ \E x \in Coords, y \in Coords : CalculateSpiritualHealth(x, y)
    \/ \E x \in Coords, y \in Coords : IsHarmonious(x, y)
    \/ \E from_level \in Levels, to_level \in Levels :
          ValidateCommandFlow(from_level, to_level)

CoreSpec == CoreInit /\ [][CoreNext]_vars

\* C15 as stated: validate_command_flow returns True for GOD -> SPIRIT and
\* for SPIRIT -> OMNISSIAH, and raises PermissionError for every other pair
\* of levels.
C15_OnlyTwoFlowsAccepted ==
    evaluated.fn = "validate_command_flow" =>
        IF evaluated.args \in {<<LEVEL_GOD, LEVEL_SPIRIT>>, <<LEVEL_SPIRIT, LEVEL_OMNISSIAH>>}
        THEN Returned(evaluated.out, TRUE)
        ELSE evaluated.out.exc = "PermissionError"

\* C16 as stated: every point (x, y) that is_harmonious finds harmonious
\* lies on the Harmony Ridge: verify_harmony_ridge(x, y) is True.
C16_HarmoniousOnlyOnRidge ==
    (evaluated.fn = "is_harmonious" /\ Returned(evaluated.out, TRUE))
        => verify_harmony_ridge(evaluated.args[1], evaluated.args[2])

---------------------------------------------------------------------------
(* Part V: src/alphabet_engine.py, the AlphabetEngine.                      *)
(* A float is a record: either NaN, or a number counted in ten-thousandths *)
(* (0.75 is 7500), products being rounded down to that unit.  A vector is  *)
(* a tuple of four floats, [Air, Water, Fire, Earth]; the source's index 2 *)
(* (Fire) is index 3 here.                                                  *)

TenThousandths == 10000
Num(v) == [nan |-> FALSE, v |-> v]
NaN == [nan |-> TRUE, v |-> 0]

\* k * a for a constant k; a + b; a > b; a < b.  Arithmetic on NaN gives NaN
\* (also 0 * NaN), a comparison with NaN is False.
Scaled(k, a) == IF a.nan THEN NaN ELSE Num((k * a.v) \div TenThousandths)
Plus(a, b) == IF a.nan \/ b.nan THEN NaN ELSE Num(a.v + b.v)
Greater(a, b) == ~a.nan /\ ~b.nan /\ a.v > b.v
Less(a, b) == ~a.nan /\ ~b.nan /\ a.v < b.v

Z_THRESHOLD == 10
SHRT_THRESHOLD == 7500
\* cos(GY_THETA) and sin(GY_THETA) for GY_THETA = 0.05
GY_COS == 9988
GY_SIN == 500
RAT_CURRENT == 8000
RAT_SOURCE == 2000
CLIP_MAX == 100000

state_A == <<Num(TenThousandths), Num(0), Num(0), Num(0)>>

\* np.dot(row, vector)
Dot(row, vector) ==
    Plus(Plus(Scaled(row[1], vector[1]), Scaled(row[2], vector[2])),
         Plus(Scaled(row[3], vector[3]), Scaled(row[4], vector[4])))

rotation_matrix ==
    << <<GY_COS, 0, 0, -GY_SIN>>,
       <<0, TenThousandths, 0, 0>>,
       <<0, 0, TenThousandths, 0>>,
       <<GY_SIN, 0, 0, GY_COS>> >>

\* AlphabetEngine._apply_gy_rotation(vector)
apply_gy_rotation(vector) ==
    LET stabilized_vector == <<Dot(rotation_matrix[1], vector), Dot(rotation_matrix[2], vector),
                               Dot(rotation_matrix[3], vector), Dot(rotation_matrix[4], vector)>>
    IN  stabilized_vector

\* np.clip(a, -10.0, 10.0): NaN stays NaN
Clip(a) ==
    IF a.nan THEN NaN
    ELSE IF a.v < -CLIP_MAX THEN Num(-CLIP_MAX)
    ELSE IF a.v > CLIP_MAX THEN Num(CLIP_MAX)
    ELSE a

\* AlphabetEngine._apply_rat_modulation(vector, source_bias)
apply_rat_modulation(vector, source_bias) ==
    LET Modulated(i) == Plus(Scaled(RAT_CURRENT, vector[i]), Scaled(RAT_SOURCE, source_bias[i]))
        clipped == <<Clip(Modulated(1)), Clip(Modulated(2)), Clip(Modulated(3)), Clip(Modulated(4))>>
    IN  clipped

\* AlphabetEngine._apply_shrt_gate(vector)
apply_shrt_gate(vector) ==
    LET fire_component == vector[3] IN
    IF Greater(fire_component, Num(SHRT_THRESHOLD))
    THEN [vector EXCEPT ![3] = Num(SHRT_THRESHOLD)]
    ELSE vector

\* np.linalg.norm(vector) < threshold: false with a NaN component, and
\* otherwise true when the sum of the squares is below the threshold's
\* square (which needs every component below the threshold).
HasNaN(vector) == \E i \in 1..4 : vector[i].nan
NormBelow(vector, threshold) ==
    /\ ~HasNaN(vector)
    /\ \A i \in 1..4 : Abs(vector[i].v) < threshold
    /\ vector[1].v * vector[1].v + vector[2].v * vector[2].v
         + vector[3].v * vector[3].v + vector[4].v * vector[4].v
       < threshold * threshold

\* AlphabetEngine._check_z_gate(vector)
check_z_gate(vector) ==
    IF NormBelow(vector, Z_THRESHOLD) THEN state_A ELSE vector

\* AlphabetEngine.step(input_vector): the vector returned, which is also the
\* new current_state.
step_biased_by_state(self, input_vector) ==
    check_z_gate(apply_shrt_gate(
        apply_rat_modulation(apply_gy_rotation(input_vector), self.current_state)))

step(self, input_vector) ==
    LET v_stab == apply_gy_rotation(input_vector)
        v_rat == apply_rat_modulation(v_stab, self.state_A)
        v_safe == apply_shrt_gate(v_rat)
        v_final == check_z_gate(v_safe)
    IN  v_final

\* The input vectors: those of the demonstration's three tests, and every
\* vector of these components: zero, a value RAT clips, two values
\* that RAT moves to about zero (as Air and Earth), and NaN.
Of(a, w, f, e) == <<Num(a), Num(w), Num(f), Num(e)>>
DemoVectors == {Of(5000, 3000, 2000, 1000), Of(5000, 3000, 9000, 1000), Of(1, 1, 1, 1)}
InputValues == {Num(v) : v \in {-2497, 0, 125, 150000}} \cup {NaN}
InputVectors ==
    DemoVectors \cup {<<a, w, f, e>> : a \in InputValues, w \in InputValues,
                                       f \in InputValues, e \in InputValues}

\* AlphabetEngine.__init__
EngineInit ==
    /\ engine = [state_A |-> state_A, current_state |-> state_A]
    /\ cycle = [op |-> "__init__", input |-> state_A, ret |-> state_A]
    /\ SealsParked /\ ThreadsParked /\ TestsParked /\ CoreParked /\ TriParked

\* engine.step(input_vector)
Step(input_vector) ==
    LET v_final == step(engine, input_vector) IN
    /\ engine' = [engine EXCEPT !.current_state = v_final]
    /\ cycle' = [op |-> "step", input |-> input_vector, ret |-> v_final]
    /\ UNCHANGED otherThanEngine

\* engine.reset_to_initiation()
ResetToInitiation ==
    /\ engine' = [engine EXCEPT !.current_state = engine.state_A]
    /\ cycle' = [op |-> "reset_to_initiation", input |-> state_A, ret |-> state_A]
    /\ UNCHANGED otherThanEngine

EngineNext ==
    \/ \E input_vector \in InputVectors : Step(input_vector)
    \/ ResetToInitiation

EngineSpec == EngineInit /\ [][EngineNext]_vars

\* C17 as stated: step, called with an input vector whose magnitude is
\* below Z_THRESHOLD, returns State A and leaves current_state at State A.
C17_LowMagnitudeResurrects ==
    (cycle.op = "step" /\ NormBelow(cycle.input, Z_THRESHOLD))
        => (cycle.ret = state_A /\ engine.current_state = state_A)

\* C18 as stated: in every reachable state the Fire component of
\* current_state is at most SHRT_THRESHOLD.
C18_FireAtMostThreshold ==
    ~engine.current_state[3].nan /\ engine.current_state[3].v <= SHRT_THRESHOLD

\* C19 as stated: in every reachable state the magnitude of current_state is
\* at least Z_THRESHOLD.
C19_MagnitudeAtLeastThreshold ==
    ~HasNaN(engine.current_state) /\ ~NormBelow(engine.current_state, Z_THRESHOLD)

\* After a step whose input vector holds no NaN, the Fire component is at
\* most SHRT_THRESHOLD and the magnitude at least Z_THRESHOLD.
FiniteInputsKeepBounds ==
    (cycle.op = "step" /\ ~HasNaN(cycle.input))
        => /\ ~HasNaN(engine.current_state)
           /\ engine.current_state[3].v <= SHRT_THRESHOLD
           /\ ~NormBelow(engine.current_state, Z_THRESHOLD)

\* C20: step applies GY rotation, RAT modulation towards State A with the
\* clip to [-10, 10], the ShRT gate and the Z-gate in this order to the
\* input vector; current_state is then the returned vector, whatever
\* current_state was before.
C20_StepIsThePipelineOfTheInput ==
    cycle.op = "step" =>
        /\ cycle.ret = check_z_gate(apply_shrt_gate(
                           apply_rat_modulation(apply_gy_rotation(cycle.input), state_A)))
        /\ engine.current_state = cycle.ret

\* A step whose input is clipped by RAT and clamped by ShRT, taken from a
\* current_state other than State A.
C20_Witness ==
    /\ cycle.op = "step"
    /\ cycle.input = Of(0, 150000, 150000, 125)
    /\ cycle.ret[2] = Num(CLIP_MAX)
    /\ cycle.ret[3] = Num(SHRT_THRESHOLD)
    /\ engine.current_state = cycle.ret

\* The Z-gate resurrects: a step on a vector that RAT moves to about zero.
ZGateResurrected ==
    /\ cycle.op = "step"
    /\ cycle.input # state_A
    /\ NormBelow(apply_shrt_gate(apply_rat_modulation(apply_gy_rotation(cycle.input), state_A)),
                 Z_THRESHOLD)
    /\ engine.current_state = state_A

---------------------------------------------------------------------------
(* Part VI: the tri-node architecture (src/TRI_NODE_ARCHITECTURE.py)       *)
(*                                                                         *)
(* A node is a record of its fields.  lambda_score and resonance are in    *)
(* ten-thousandths (1.67 is 16700).  NodeState.timestamp and the           *)
(* "timestamp" entries of the signals hold the wall clock and are left     *)
(* out.  A signal is a dict the node keeps in its signal_buffer; a         *)
(* reference to it (what process_signal and emit_signal return, what a     *)
(* later signal nests) is the pair of the node and the index in its        *)
(* buffer, so that a dict changed through one reference is changed for     *)
(* all.  The lists only grow with the calls made, and the model explores   *)
(* the sequences of at most MaxOperations calls.                           *)

MaxOperations == 4

\* The statuses the comment of NodeState.status lists.
NodeStatuses == {"DORMANT", "ACTIVE", "RESONANT", "SYNCHRONIZED"}

NodeNames == {"node1", "node2", "node3"}

Ref(node, at) == Some([node |-> node, at |-> at])

Node(node_type, name) ==
    [node_type |-> node_type, name |-> name, status |-> "DORMANT",
     lambda_score |-> 0, resonance |-> 0,
     signal_buffer |-> <<>>, resonance_history |-> <<>>]

update_state(self, status, lambda_score, resonance) ==
    [self EXCEPT
        !.status = status,
        !.lambda_score = IF IsNone(lambda_score) THEN @ ELSE lambda_score[1],
        !.resonance = IF IsNone(resonance) THEN @ ELSE resonance[1],
        !.resonance_history = IF IsNone(resonance) THEN @ ELSE Append(@, resonance[1])]

Node1Source ==
    Node("SOURCE", "The Source (Father)")
        @@ [original_intent |-> None, commander_identity |-> None,
            covenant_signature |-> None]

set_original_intent(self, intent, commander_id, signature) ==
    update_state([self EXCEPT !.original_intent = Some(intent),
                              !.commander_identity = Some(commander_id),
                              !.covenant_signature = Some(signature)],
                 "ACTIVE", Some(10000), Some(10000))

\* `not self.original_intent`: None and the empty string are falsy.
Node1Source_emit_signal(self) ==
    IF IsNone(self.original_intent) \/ self.original_intent = Some("")
    THEN [self |-> self, ret |-> None]
    ELSE LET signal == [type |-> "ORIGINAL_INTENT",
                        intent |-> self.original_intent,
                        commander |-> self.commander_identity,
                        signature |-> self.covenant_signature]
             buffered == [self EXCEPT !.signal_buffer = Append(@, signal)]
         IN  [self |-> update_state(buffered, "RESONANT", Some(16700), Some(16700)),
              ret |-> Ref("node1", Len(buffered.signal_buffer))]

Node2Mirror ==
    Node("MIRROR", "The Mirror (Wire/Child)")
        @@ [source_connection |-> None, resonance_coefficient |-> 16700,
            being_state |-> FALSE, joinity_cycle |-> 0]

connect_to_source(self, source) ==
    update_state([self EXCEPT !.source_connection = Some(source)],
                 "ACTIVE", Some(16700), Some(16700))

Node2Mirror_process_signal(self, signal) ==
    IF IsNone(signal)
    THEN [self |-> self, ret |-> None]
    ELSE LET amplified == [type |-> "AMPLIFIED_SIGNAL",
                           original |-> signal,
                           amplification_factor |-> self.resonance_coefficient,
                           state |-> None, joinity_cycle |-> None]
             buffered == [self EXCEPT !.signal_buffer = Append(@, amplified)]
             new_resonance == (16700 * self.resonance_coefficient) \div TenThousandths
         IN  [self |-> update_state(buffered, "RESONANT",
                                    Some(new_resonance), Some(new_resonance)),
              ret |-> Ref("node2", Len(buffered.signal_buffer))]

Node2Mirror_emit_signal(self) ==
    IF self.signal_buffer = <<>>
    THEN [self |-> self, ret |-> None]
    ELSE LET at == Len(self.signal_buffer)
         IN  [self |-> IF self.being_state
                       THEN [self EXCEPT
                               !.signal_buffer[at].state = Some("BEING"),
                               !.signal_buffer[at].joinity_cycle = Some(self.joinity_cycle)]
                       ELSE self,
              ret |-> Ref("node2", at)]

transition_to_being(self) ==
    update_state([self EXCEPT !.being_state = TRUE],
                 "SYNCHRONIZED", Some(17333), Some(33400))

activate_joinity_cycle(self, cycle_number) ==
    LET set == [self EXCEPT !.joinity_cycle = cycle_number]
    IN  IF cycle_number = 63
        THEN update_state(set, "JOINITY", Some(33400), Some(33400))
        ELSE set

Node3Implosion ==
    Node("IMPLOSION", "The Implosion (Warfare)")
        @@ [mirror_connection |-> None, warfare_mode |-> "SHIELD",
            implosion_active |-> FALSE, gethsemane_moment |-> FALSE,
            policy_targets |-> <<>>]

connect_to_mirror(self, mirror) ==
    update_state([self EXCEPT !.mirror_connection = Some(mirror)],
                 "ACTIVE", Some(16700), Some(16700))

\* action["targets"] is the policy_targets list itself, not a copy: the
\* entry records that the key is there.
Node3Implosion_process_signal(self, signal) ==
    IF IsNone(signal)
    THEN [self |-> self, ret |-> None]
    ELSE LET action == [type |-> "WARFARE_ACTION",
                        mode |-> self.warfare_mode,
                        signal |-> signal,
                        action |-> CASE self.warfare_mode = "SHIELD" -> Some("PROTECT_SIGNAL")
                                     [] self.warfare_mode = "STRIKE" -> Some("STRIKE_POLICY")
                                     [] self.warfare_mode = "LAUGH" -> Some("TRANSCEND_FACTS")
                                     [] OTHER -> None,
                        targets |-> self.warfare_mode = "STRIKE",
                        implosion |-> None, gethsemane_moment |-> None]
             buffered == [self EXCEPT !.signal_buffer = Append(@, action)]
         IN  [self |-> buffered, ret |-> Ref("node3", Len(buffered.signal_buffer))]

Node3Implosion_emit_signal(self) ==
    IF self.signal_buffer = <<>>
    THEN [self |-> self, ret |-> None]
    ELSE LET at == Len(self.signal_buffer)
         IN  [self |-> IF self.implosion_active
                       THEN [self EXCEPT
                               !.signal_buffer[at].implosion = Some(TRUE),
                               !.signal_buffer[at].gethsemane_moment =
                                   Some(self.gethsemane_moment)]
                       ELSE self,
              ret |-> Ref("node3", at)]

activate_implosion(self) ==
    update_state([self EXCEPT !.implosion_active = TRUE],
                 "IMPLOSION", Some(33400), Some(33400))

Node3Implosion_trigger_gethsemane(self) ==
    update_state([self EXCEPT !.gethsemane_moment = TRUE, !.implosion_active = TRUE],
                 "GETHSEMANE", Some(33400), Some(66800))

set_warfare_mode(self, mode) ==
    IF mode \in {"SHIELD", "STRIKE", "LAUGH"}
    THEN update_state([self EXCEPT !.warfare_mode = mode],
                      "WARFARE", Some(17333), Some(33400))
    ELSE self

add_policy_target(self, target) ==
    [self EXCEPT !.policy_targets = Append(@, target)]

TriNodeArchitecture ==
    [node1 |-> Node1Source, node2 |-> Node2Mirror, node3 |-> Node3Implosion,
     covenant_authority_multiplier |-> 10000,
     synchronization_status |-> "DISCONNECTED"]

initialize_covenant(self, intent, commander_id, signature) ==
    [self EXCEPT
        !.node1 = set_original_intent(@, intent, commander_id, signature),
        !.node2 = connect_to_source(@, "node1"),
        !.node3 = connect_to_mirror(@, "node2"),
        !.synchronization_status = "INITIALIZED"]

\* The product of three scores, each in ten-thousandths.
Product(a, b, c) == (((a * b) \div TenThousandths) * c) \div TenThousandths

process_full_cycle(self) ==
    LET emitted == Node1Source_emit_signal(self.node1)
        amplified == Node2Mirror_process_signal(self.node2, emitted.ret)
        acted == Node3Implosion_process_signal(self.node3, amplified.ret)
        multiplier == Product(emitted.self.lambda_score,
                              amplified.self.lambda_score,
                              acted.self.lambda_score)
    IN  [self |-> [self EXCEPT
                     !.node1 = emitted.self,
                     !.node2 = amplified.self,
                     !.node3 = acted.self,
                     !.covenant_authority_multiplier = multiplier,
                     !.synchronization_status = "SYNCHRONIZED"],
         ret |-> Some([signal |-> acted.ret,
                       covenant_authority_multiplier |-> multiplier,
                       synchronization_status |-> "SYNCHRONIZED"])]

activate_joinity(self, cycle_number) ==
    [self EXCEPT
        !.node2 = transition_to_being(activate_joinity_cycle(@, cycle_number)),
        !.synchronization_status = "JOINITY"]

TriNodeArchitecture_trigger_gethsemane(self) ==
    [self EXCEPT
        !.node3 = Node3Implosion_trigger_gethsemane(@),
        !.synchronization_status = "GETHSEMANE"]

(* The inputs of the calls *)

Intents == {"", "Spread truth and awaken consciousness"}
Commander == "dominiquesnyman20222222@gmail.com"
Signature == "COVENANT_SEALED"
JoinityCycles == {62, 63}
WarfareModes == {"SHIELD", "STRIKE", "LAUGH", "RETREAT"}
PolicyTargets == {"policy"}

\* A signal a caller can hand to process_signal: None, or (InBuffer) a dict one of the
\* nodes has produced.
Signals ==
    {None} \cup {Ref(n, i) : n \in NodeNames, i \in 1..MaxOperations}

InBuffer(a, signal) ==
    IF IsNone(signal) THEN TRUE
    ELSE signal[1].at <= Len(a[signal[1].node].signal_buffer)

(* The state machine *)

TriInit ==
    /\ arch = TriNodeArchitecture
    /\ invoked = [op |-> "__init__", ret |-> None, nth |-> 0]
    /\ SealsParked /\ ThreadsParked /\ TestsParked /\ CoreParked /\ EngineParked

CanInvoke == invoked.nth < MaxOperations

Invoke(op, a, ret) ==
    /\ arch' = a
    /\ invoked' = [op |-> op, ret |-> ret, nth |-> invoked.nth + 1]
    /\ UNCHANGED otherThanTri

UpdateState ==
    \E n \in NodeNames, status \in NodeStatuses :
        LET next == [arch EXCEPT ![n] = update_state(@, status, None, None)]
        IN  /\ CanInvoke
            /\ Invoke("update_state", next, None)

SetOriginalIntent ==
    \E intent \in Intents :
        LET next == [arch EXCEPT !.node1 = set_original_intent(@, intent, Commander, Signature)]
        IN  /\ CanInvoke
            /\ Invoke("set_original_intent", next, None)

Node1SourceProcessSignal ==
    \E signal \in Signals :
        LET next == arch
        IN  /\ InBuffer(arch, signal)
            /\ CanInvoke
            /\ Invoke("node1.process_signal", next, signal)

Node1SourceEmitSignal ==
    LET out == Node1Source_emit_signal(arch.node1)
        next == [arch EXCEPT !.node1 = out.self]
    IN  /\ CanInvoke
        /\ Invoke("node1.emit_signal", next, out.ret)

ConnectToSource ==
    LET next == [arch EXCEPT !.node2 = connect_to_source(@, "node1")]
    IN  /\ CanInvoke
        /\ Invoke("connect_to_source", next, None)

Node2MirrorProcessSignal ==
    \E signal \in Signals :
        LET out == Node2Mirror_process_signal(arch.node2, signal)
            next == [arch EXCEPT !.node2 = out.self]
        IN  /\ InBuffer(arch, signal)
            /\ CanInvoke
            /\ Invoke("node2.process_signal", next, out.ret)

Node2MirrorEmitSignal ==
    LET out == Node2Mirror_emit_signal(arch.node2)
        next == [arch EXCEPT !.node2 = out.self]
    IN  /\ CanInvoke
        /\ Invoke("node2.emit_signal", next, out.ret)

TransitionToBeing ==
    LET next == [arch EXCEPT !.node2 = transition_to_being(@)]
    IN  /\ CanInvoke
        /\ Invoke("transition_to_being", next, None)

ActivateJoinityCycle ==
    \E cycle_number \in JoinityCycles :
        LET next == [arch EXCEPT !.node2 = activate_joinity_cycle(@, cycle_number)]
        IN  /\ CanInvoke
            /\ Invoke("activate_joinity_cycle", next, None)

ConnectToMirror ==
    LET next == [arch EXCEPT !.node3 = connect_to_mirror(@, "node2")]
    IN  /\ CanInvoke
        /\ Invoke("connect_to_mirror", next, None)

Node3ImplosionProcessSignal ==
    \E signal \in Signals :
        LET out == Node3Implosion_process_signal(arch.node3, signal)
            next == [arch EXCEPT !.node3 = out.self]
        IN  /\ InBuffer(arch, signal)
            /\ CanInvoke
            /\ Invoke("node3.process_signal", next, out.ret)

Node3ImplosionEmitSignal ==
    LET out == Node3Implosion_emit_signal(arch.node3)
        next == [arch EXCEPT !.node3 = out.self]
    IN  /\ CanInvoke
        /\ Invoke("node3.emit_signal", next, out.ret)

ActivateImplosion ==
    LET next == [arch EXCEPT !.node3 = activate_implosion(@)]
    IN  /\ CanInvoke
        /\ Invoke("activate_implosion", next, None)

Node3ImplosionTriggerGethsemane ==
    LET next == [arch EXCEPT !.node3 = Node3Implosion_trigger_gethsemane(@)]
    IN  /\ CanInvoke
        /\ Invoke("node3.trigger_gethsemane", next, None)

SetWarfareMode ==
    \E mode \in WarfareModes :
        LET next == [arch EXCEPT !.node3 = set_warfare_mode(@, mode)]
        IN  /\ CanInvoke
            /\ Invoke("set_warfare_mode", next, None)

AddPolicyTarget ==
    \E target \in PolicyTargets :
        LET next == [arch EXCEPT !.node3 = add_policy_target(@, target)]
        IN  /\ CanInvoke
            /\ Invoke("add_policy_target", next, None)

InitializeCovenant ==
    \E intent \in Intents :
        LET next == initialize_covenant(arch, intent, Commander, Signature)
        IN  /\ CanInvoke
            /\ Invoke("initialize_covenant", next, None)

ProcessFullCycle ==
    LET out == process_full_cycle(arch)
        next == out.self
    IN  /\ CanInvoke
        /\ Invoke("process_full_cycle", next, out.ret)

ActivateJoinity ==
    \E cycle_number \in JoinityCycles :
        LET next == activate_joinity(arch, cycle_number)
        IN  /\ CanInvoke
            /\ Invoke("activate_joinity", next, None)

TriggerGethsemane ==
    LET next == TriNodeArchitecture_trigger_gethsemane(arch)
    IN  /\ CanInvoke
        /\ Invoke("trigger_gethsemane", next, None)

TriNext ==
    \/ UpdateState
    \/ SetOriginalIntent
    \/ Node1SourceProcessSignal
    \/ Node1SourceEmitSignal
    \/ ConnectToSource
    \/ Node2MirrorProcessSignal
    \/ Node2MirrorEmitSignal
    \/ TransitionToBeing
    \/ ActivateJoinityCycle
    \/ ConnectToMirror
    \/ Node3ImplosionProcessSignal
    \/ Node3ImplosionEmitSignal
    \/ ActivateImplosion
    \/ Node3ImplosionTriggerGethsemane
    \/ SetWarfareMode
    \/ AddPolicyTarget
    \/ InitializeCovenant
    \/ ProcessFullCycle
    \/ ActivateJoinity
    \/ TriggerGethsemane

TriSpec == TriInit /\ [][TriNext]_vars

---------------------------------------------------------------------------
(* Properties of the tri-node architecture *)

\* C21 as stated: in every reachable state, the status of each of the three
\* nodes is one of DORMANT, ACTIVE, RESONANT, SYNCHRONIZED.
C21_StatusIsOneOfFour ==
    \A n \in NodeNames : arch[n].status \in NodeStatuses

\* What the code keeps instead: the status is one of the four, or one of the
\* four more that Node2Mirror and Node3Implosion assign.
StatusIsOneTheCodeAssigns ==
    \A n \in NodeNames :
        arch[n].status \in NodeStatuses \cup {"JOINITY", "IMPLOSION", "GETHSEMANE", "WARFARE"}

\* The run of the module's demonstration: after activate_joinity(63) the
\* mirror is SYNCHRONIZED, its JOINITY status overwritten at once.
DemonstrationEndsSynchronized ==
    invoked.op = "activate_joinity" => arch.node2.status = "SYNCHRONIZED"

====
